---- MODULE Spec2Model ----
(***************************************************************************)
(* Model of the AzureMaps and MapTiler geocoder adapters                   *)
(* (geopy/geocoders/azure.py, geopy/geocoders/maptiler.py).                *)
(*                                                                         *)
(* Python values are modelled as follows.                                  *)
(*   str        a sequence of one-character strings                        *)
(*   None       PyNone                                                     *)
(*   JSON text  PyStr(chars)        JSON number  PyNum(n)                  *)
(*   dict       a function whose domain is the set of keys; where the code *)
(*              asks isinstance(x, dict) the value is wrapped PyDict(d)    *)
(*   list       a sequence; wrapped PyList(s) where a value may also be    *)
(*              None or a Location                                         *)
(*   Location   Location(address, (lat, lng), raw)                         *)
(* A call ends in Return(value) or Raise(exception name).                  *)
(***************************************************************************)
EXTENDS Integers, Sequences, FiniteSets, TLC

VARIABLES
    \* ---- parser scenario (SpecParse): one decoded response and its parse
    p_adapter,      \* "AzureMaps" | "MapTiler": whose parser callback runs
    p_json,         \* the decoded JSON body handed to the callback
    p_exactly_one,  \* the exactly_one bound into the callback by partial()
    p_is_reverse,   \* the is_reverse bound into the AzureMaps callback
    p_out,          \* NotRun, or the callback's outcome
    \* ---- call scenario (Spec): one adapter object and the call in progress
    adapter,        \* "AzureMaps" | "MapTiler": the class constructed
    pc,             \* "idle" | "batching" | "awaiting" | "returned" | "raised" | "delegated"
    call,           \* the arguments of the public call in progress
    pos,            \* _apply_batchwise: offset of the next slice
    inflight,       \* the HTTP request awaiting its response, or NoRequest
    requests,       \* every HTTP request issued by the call, in issue order
    invoked,        \* the query argument of every _geocode/_reverse/_batch_* invocation
    parts,          \* the per-request results, in completion order
    result          \* the call's outcome once pc is "returned" or "raised"

pvars == <<p_adapter, p_json, p_exactly_one, p_is_reverse, p_out>>
cvars == <<adapter, pc, call, pos, inflight, requests, invoked, parts, result>>
vars == <<p_adapter, p_json, p_exactly_one, p_is_reverse, p_out,
          adapter, pc, call, pos, inflight, requests, invoked, parts, result>>

----------------------------------------------------------------------------
\* Python values

PyNone == [t |-> "None"]
PyStr(s) == [t |-> "str", s |-> s]
PyNum(n) == [t |-> "num", n |-> n]
PyDict(d) == [t |-> "dict", d |-> d]
PyList(v) == [t |-> "list", v |-> v]
EmptyDict == <<>>

Location(address, point, raw) ==
    [t |-> "Location", address |-> address, point |-> point, raw |-> raw]

Return(v) == [kind |-> "return", value |-> v]
Raise(e) == [kind |-> "raise", exc |-> e]

\* dict.get(k, default)
DictGet(d, k, default) == IF k \in DOMAIN d THEN d[k] ELSE default

----------------------------------------------------------------------------
\* Strings

Digits == <<"0", "1", "2", "3", "4", "5", "6", "7", "8", "9">>
IsDigit(c) == \E i \in DOMAIN Digits : Digits[i] = c
DigitVal(c) == (CHOOSE i \in DOMAIN Digits : Digits[i] = c) - 1

RECURSIVE UnsignedValue(_)
UnsignedValue(s) ==
    IF s = <<>> THEN 0
    ELSE 10 * UnsignedValue(SubSeq(s, 1, Len(s) - 1)) + DigitVal(s[Len(s)])

\* float(text), on the decimal integers the model uses as coordinates
ParseFloat(s) ==
    LET body == IF s # <<>> /\ s[1] = "-" THEN Tail(s) ELSE s
    IN IF body = <<>> \/ \E i \in DOMAIN body : ~IsDigit(body[i])
       THEN Raise("ValueError")
       ELSE Return(IF s[1] = "-" THEN 0 - UnsignedValue(body) ELSE UnsignedValue(body))

RECURSIVE FormatUnsigned(_)
FormatUnsigned(n) ==
    IF n < 10 THEN <<Digits[n + 1]>>
    ELSE FormatUnsigned(n \div 10) \o <<Digits[(n % 10) + 1]>>

\* "%s" % n and f"{n}" for an integer coordinate
FormatNum(n) == IF n < 0 THEN <<"-">> \o FormatUnsigned(0 - n) ELSE FormatUnsigned(n)

\* s.split(sep) for a one-character separator
RECURSIVE Split(_, _)
Split(s, sep) ==
    IF \A i \in DOMAIN s : s[i] # sep THEN <<s>>
    ELSE LET k == CHOOSE i \in DOMAIN s :
                      s[i] = sep /\ \A j \in 1..(i - 1) : s[j] # sep
         IN <<SubSeq(s, 1, k - 1)>> \o Split(SubSeq(s, k + 1, Len(s)), sep)

\* sep.join(parts)
RECURSIVE Join(_, _)
Join(ps, sep) ==
    IF ps = <<>> THEN <<>>
    ELSE IF Len(ps) = 1 THEN ps[1]
    ELSE ps[1] \o sep \o Join(Tail(ps), sep)

StartsWith(s, prefix) ==
    Len(s) >= Len(prefix) /\ SubSeq(s, 1, Len(prefix)) = prefix

----------------------------------------------------------------------------
\* AzureMaps._parse_batch_response

\* float(x): a JSON number, a numeric text, or None
Float(x) ==
    CASE x.t = "num" -> Return(x.n)
      [] x.t = "str" -> ParseFloat(x.s)
      [] OTHER -> Raise("TypeError")

\* position.split(",")[i] (i from 0), IndexError past the end
SplitAt(s, i) ==
    LET ps == Split(s, ",")
    IN IF i + 1 \in DOMAIN ps THEN Return(PyStr(ps[i + 1])) ELSE Raise("IndexError")

\* the body of "for result in item['response'][key]": one Location, or the
\* exception the conversions raise
AzureParseResult(res) ==
    LET address == DictGet(res, "address", EmptyDict)
        position == DictGet(res, "position", PyDict(EmptyDict))
        latSrc == IF position.t = "dict"
                  THEN Return(DictGet(position.d, "lat", PyNone))
                  ELSE SplitAt(position.s, 0)
        lat == IF latSrc.kind = "raise" THEN latSrc ELSE Float(latSrc.value)
        lngSrc == IF position.t = "dict"
                  THEN Return(DictGet(position.d, "lon", PyNone))
                  ELSE SplitAt(position.s, 1)
        lng == IF lngSrc.kind = "raise" THEN lngSrc ELSE Float(lngSrc.value)
    IN IF lat.kind = "raise" THEN lat
       ELSE IF lng.kind = "raise" THEN lng
       ELSE Return(Location(DictGet(address, "freeformAddress", PyNone),
                            <<lat.value, lng.value>>, res))

\* a loop body applied to every element in order: the list of its values, or
\* the exception of the first element that raises
FirstRaise(outs) ==
    outs[CHOOSE i \in DOMAIN outs :
             outs[i].kind = "raise" /\ \A j \in 1..(i - 1) : outs[j].kind = "return"]

Collect(outs) ==
    IF \E i \in DOMAIN outs : outs[i].kind = "raise"
    THEN FirstRaise(outs)
    ELSE Return([i \in DOMAIN outs |-> outs[i].value])

AzureResponseKey(is_reverse) == IF is_reverse THEN "addresses" ELSE "results"

\* AzureParseItem keeping the last result of a non-empty set instead of the
\* first when exactly_one is set
AzureParseItem_KeepsLast(item, key, exactly_one) ==
    LET response == item["response"]
    IN IF key \in DOMAIN response /\ response[key] # <<>>
       THEN LET results == Collect([i \in DOMAIN response[key] |->
                                       AzureParseResult(response[key][i])])
            IN IF results.kind = "raise" THEN results
               ELSE IF exactly_one THEN Return(results.value[Len(results.value)])
               ELSE Return(PyList(results.value))
       ELSE IF exactly_one THEN Return(PyNone)
       ELSE Return(PyList(<<>>))

\* the body of "for item in r_json.get('batchItems', [])": the value appended
\* to locations
AzureParseItem(item, key, exactly_one) ==
    LET response == item["response"]
    IN IF key \in DOMAIN response /\ response[key] # <<>>
       THEN LET results == Collect([i \in DOMAIN response[key] |->
                                       AzureParseResult(response[key][i])])
            IN IF results.kind = "raise" THEN results
               ELSE IF exactly_one THEN Return(results.value[1])
               ELSE Return(PyList(results.value))
       ELSE IF exactly_one THEN Return(PyNone)
       ELSE Return(PyList(<<>>))

\* ParseBatchResponse looking at "error" only when there are no items
ParseBatchResponse_ErrorAfterItems(r_json, exactly_one, is_reverse) ==
    LET key == AzureResponseKey(is_reverse)
        items == DictGet(r_json, "batchItems", <<>>)
    IN IF "error" \in DOMAIN r_json /\ items = <<>>
       THEN Raise("GeocoderServiceError")
       ELSE Collect([i \in DOMAIN items |-> AzureParseItem(items[i], key, exactly_one)])

ParseBatchResponse(r_json, exactly_one, is_reverse) ==
    LET key == AzureResponseKey(is_reverse)
        items == DictGet(r_json, "batchItems", <<>>)
    IN IF "error" \in DOMAIN r_json
       THEN Raise("GeocoderServiceError")
       ELSE Collect([i \in DOMAIN items |-> AzureParseItem(items[i], key, exactly_one)])

----------------------------------------------------------------------------
\* MapTiler._parse_json, MapTiler._parse_feature

\* parse_feature keeping the axis order of center
ParseFeatureInner_NoSwap(feature) ==
    LET location == feature["place_name"]
        latitude == feature["center"][1]
        longitude == feature["center"][2]
    IN Location(location, <<latitude, longitude>>, feature)

\* the nested parse_feature(feature)
ParseFeatureInner(feature) ==
    LET location == feature["place_name"]
        longitude == feature["center"][1]
        latitude == feature["center"][2]
    IN Location(location, <<latitude, longitude>>, feature)

\* ParseFeature answering an empty features array with an empty list in
\* multi-result mode
ParseFeature_EmptyList(collection, exactly_one) ==
    LET features == collection["features"]
    IN IF features = <<>> THEN (IF exactly_one THEN PyNone ELSE PyList(<<>>))
       ELSE IF exactly_one THEN ParseFeatureInner(features[1])
       ELSE PyList([i \in DOMAIN features |-> ParseFeatureInner(features[i])])

ParseFeature(collection, exactly_one) ==
    LET features == collection["features"]
    IN IF features = <<>> THEN PyNone
       ELSE IF exactly_one THEN ParseFeatureInner(features[1])
       ELSE PyList([i \in DOMAIN features |-> ParseFeatureInner(features[i])])

\* the collections of cs whose features array is not empty
RECURSIVE SelectNonEmpty(_)
SelectNonEmpty(cs) ==
    IF cs = <<>> THEN <<>>
    ELSE IF cs[1]["features"] = <<>> THEN SelectNonEmpty(Tail(cs))
    ELSE <<cs[1]>> \o SelectNonEmpty(Tail(cs))

\* ParseJson leaving the empty collections of a list out of its result
ParseJson_SkipsEmpty(json, exactly_one) ==
    IF json.t = "dict" THEN ParseFeature(json.d, exactly_one)
    ELSE LET kept == SelectNonEmpty(json.v)
         IN PyList([i \in DOMAIN kept |-> ParseFeature(kept[i], exactly_one)])

ParseJson(json, exactly_one) ==
    IF json.t = "dict" THEN ParseFeature(json.d, exactly_one)
    ELSE PyList([i \in DOMAIN json.v |-> ParseFeature(json.v[i], exactly_one)])

----------------------------------------------------------------------------
\* urllib.parse.quote / quote_plus on the characters the model uses

Unreserved ==
    {"a", "b", "c", "z", "_", ".", "-", "~"} \cup {Digits[i] : i \in DOMAIN Digits}

PercentCode(c) ==
    CASE c = " " -> <<"%", "2", "0">>
      [] c = "," -> <<"%", "2", "C">>
      [] c = ";" -> <<"%", "3", "B">>
      [] c = "&" -> <<"%", "2", "6">>
      [] c = "=" -> <<"%", "3", "D">>
      [] c = "?" -> <<"%", "3", "F">>
      [] c = "+" -> <<"%", "2", "B">>
      [] c = "%" -> <<"%", "2", "5">>
      [] OTHER -> <<"%", "3", "F">>

RECURSIVE QuoteWith(_, _, _)
QuoteWith(s, safe, plus) ==
    IF s = <<>> THEN <<>>
    ELSE (IF s[1] \in Unreserved \cup safe THEN <<s[1]>>
          ELSE IF plus /\ s[1] = " " THEN <<"+">>
          ELSE PercentCode(s[1]))
         \o QuoteWith(Tail(s), safe, plus)

Quote(s) == QuoteWith(s, {"/"}, FALSE)
QuotePlus(s) == QuoteWith(s, {}, TRUE)

----------------------------------------------------------------------------
\* Coordinates as the caller supplies them

PyTuple(v) == [t |-> "tuple", v |-> v]
Point(lat, lng) ==
    [t |-> "Point", latitude |-> lat, longitude |-> lng, altitude |-> 0]

\* Point(x): a Point, a (lat, lng) pair or a "lat,lng" text as a Point
ToPoint(x) ==
    CASE x.t = "Point" -> x
      [] x.t = "tuple" -> Point(x.v[1], x.v[2])
      [] OTHER -> LET ps == Split(x.s, ",")
                  IN Point(ParseFloat(ps[1]).value, ParseFloat(ps[2]).value)

\* Geocoder._coerce_point_to_string(point, "%(lon)s,%(lat)s")
CoercePointToLonLat(x) ==
    LET p == ToPoint(x)
    IN FormatNum(p.longitude) \o <<",">> \o FormatNum(p.latitude)

\* the values "for lat, lng in ..." binds for one element: iter(element) must
\* yield exactly two.  A tuple yields its members, a str its characters, a
\* geopy Point its latitude, longitude and altitude.
IterValues(x) ==
    CASE x.t = "tuple" -> [i \in DOMAIN x.v |-> PyNum(x.v[i])]
      [] x.t = "Point" -> <<PyNum(x.latitude), PyNum(x.longitude), PyNum(x.altitude)>>
      [] OTHER -> [i \in DOMAIN x.s |-> PyStr(<<x.s[i]>>)]

Unpack2(x) ==
    IF Len(IterValues(x)) = 2 THEN Return(IterValues(x)) ELSE Raise("ValueError")

\* f"{v}"
FormatValue(v) == IF v.t = "num" THEN FormatNum(v.n) ELSE v.s

----------------------------------------------------------------------------
\* AzureMaps: construction, dispatch and the batch request builders

AzureMaxBatchSize == 1000

\* a MapTiler whose __init__ sets a larger max_batch_size
MapTilerMaxBatchSize_Larger == 2 + 2

MapTilerMaxBatchSize == 3

MaxBatchSize(a) == IF a = "AzureMaps" THEN AzureMaxBatchSize ELSE MapTilerMaxBatchSize

\* the keyword arguments geocode/reverse hand to _apply_batchwise
AzureBatchKwargs(exactly_one, limit, typeahead) ==
    [exactly_one |-> exactly_one, limit |-> PyNum(1), typeahead |-> FALSE]

\* the text every batch item query starts with, always "?limit=1&"
BatchItemPrefix_AlwaysLimited(exactly_one) ==
    <<"?", "l", "i", "m", "i", "t", "=", "1", "&">>

\* the text every batch item query starts with
BatchItemPrefix(exactly_one) ==
    IF exactly_one THEN <<"?", "l", "i", "m", "i", "t", "=", "1", "&">> ELSE <<"?">>

QueryEq == <<"q", "u", "e", "r", "y", "=">>

\* "for location in query": the loop runs over the list that is bound to
\* query when the loop starts; rebinding the name query in the body leaves the
\* iteration alone.  iter is that list; the value is data["batchItems"] after
\* the loop, one appended entry per element.
BatchGeocodeLoop(iter, exactly_one) ==
    [k \in DOMAIN iter |->
        LET location == iter[k]
            query == BatchItemPrefix(exactly_one) \o QueryEq \o QuotePlus(location.s)
        IN [query |-> query]]

\* _batch_geocode: the request handed to _call_geocoder
BatchGeocode(query, exactly_one, limit, typeahead) ==
    Return([api |-> "api_batch",
            data |-> [batchItems |-> BatchGeocodeLoop(query.v, exactly_one)],
            callback |-> [exactly_one |-> exactly_one, is_reverse |-> FALSE]])

\* the body of "for lat, lng in query": the batch item, or the exception of
\* the unpacking
BatchReverseItem(element, exactly_one) ==
    LET u == Unpack2(element)
    IN IF u.kind = "raise" THEN u
       ELSE Return([query |-> BatchItemPrefix(exactly_one) \o QueryEq
                              \o FormatValue(u.value[1]) \o <<",">>
                              \o FormatValue(u.value[2])])

\* _batch_reverse: the request handed to _call_geocoder, or the exception
\* raised while the body is built
BatchReverse(query, exactly_one, limit, typeahead) ==
    LET items == Collect([i \in DOMAIN query.v |->
                             BatchReverseItem(query.v[i], exactly_one)])
    IN IF items.kind = "raise" THEN items
       ELSE Return([api |-> "api_reverse_batch",
                    data |-> [batchItems |-> items.value],
                    callback |-> [exactly_one |-> exactly_one, is_reverse |-> TRUE]])

----------------------------------------------------------------------------
\* MapTiler: the request builders

\* MapTiler._geocode sending only the first address of a list
MapTilerGeocode_FirstOnly(query, exactly_one) ==
    Return([api |-> "api",
            query |-> IF query.t = "list"
                      THEN Quote(query.v[1].s)
                      ELSE Quote(query.s),
            callback |-> [exactly_one |-> exactly_one]])

\* MapTiler._geocode: the request handed to _call_geocoder
MapTilerGeocode(query, exactly_one) ==
    Return([api |-> "api",
            query |-> IF query.t = "list"
                      THEN Join([i \in DOMAIN query.v |-> Quote(query.v[i].s)], <<";">>)
                      ELSE Quote(query.s),
            callback |-> [exactly_one |-> exactly_one]])

\* MapTiler._reverse: the request handed to _call_geocoder
MapTilerReverse(query, exactly_one) ==
    Return([api |-> "api",
            query |-> IF query.t = "list"
                      THEN Join([i \in DOMAIN query.v |-> CoercePointToLonLat(query.v[i])],
                                <<";">>)
                      ELSE Quote(CoercePointToLonLat(query)),
            callback |-> [exactly_one |-> exactly_one]])

----------------------------------------------------------------------------
\* Bounds and the decoded responses the parser scenario draws from

MaxBatchItems == 2      \* items (collections) in one decoded response
MaxResults == 2         \* results (features) of one item

SeqsUpTo(S, n) == UNION {[1..k -> S] : k \in 0..n}

Name1 == <<"a", " ", "b">>
Name2 == <<"c">>

\* Results of one AzureMaps response.  "dict": position objects, as the
\* search endpoint sends them; "str": "lat,lon" texts, as the reverse endpoint
\* sends them; "partial": one result without freeformAddress, one without
\* position.
AzureResultPool(style) ==
    CASE style = "dict" ->
           { [address |-> [freeformAddress |-> PyStr(Name1)],
              position |-> PyDict([lat |-> PyNum(1), lon |-> PyNum(-2)])],
             [position |-> PyDict([lat |-> PyNum(3), lon |-> PyNum(1)])] }
      [] style = "str" ->
           { [address |-> [freeformAddress |-> PyStr(Name1)],
              position |-> PyStr(<<"1", ",", "-", "2">>)],
             [address |-> [freeformAddress |-> PyStr(Name2)],
              position |-> PyStr(<<"3", ",", "1">>)] }
      [] OTHER ->
           { [address |-> EmptyDict,
              position |-> PyDict([lat |-> PyNum(1), lon |-> PyNum(-2)])],
             [address |-> [freeformAddress |-> PyStr(Name2)]] }

AzureResultStyles == {"dict", "str", "partial"}

\* the "response" object of one batch item: no result key, or the list of
\* results under the key the endpoint uses
AzureItemResponses(key, style) ==
    {EmptyDict} \cup {(key :> rs) : rs \in SeqsUpTo(AzureResultPool(style), MaxResults)}

AzureBodies ==
    UNION { UNION { { [batchItems |-> [i \in DOMAIN rsps |-> [response |-> rsps[i]]]]
                      : rsps \in SeqsUpTo(AzureItemResponses(key, style), MaxBatchItems) }
                    : style \in AzureResultStyles }
            : key \in {"results", "addresses"} }

ErrorObject == [code |-> PyStr(<<"4", "0", "0">>)]

\* every decoded AzureMaps response: with or without "batchItems", with or
\* without a top-level "error"
AzureResponses ==
    AzureBodies
      \cup { ("error" :> ErrorObject) @@ b : b \in AzureBodies }
      \cup { ("error" :> ErrorObject), EmptyDict }

MapTilerFeaturePool ==
    { [place_name |-> PyStr(Name1), center |-> <<PyNum(-2), PyNum(1)>>],
      [place_name |-> PyStr(Name2), center |-> <<PyNum(1), PyNum(3)>>] }

MapTilerCollections ==
    { [features |-> fs] : fs \in SeqsUpTo(MapTilerFeaturePool, MaxResults) }

\* every decoded MapTiler response: one feature collection, or a list of them
MapTilerResponses ==
    { PyDict(c) : c \in MapTilerCollections }
      \cup { PyList(cs) : cs \in SeqsUpTo(MapTilerCollections, MaxBatchItems) }

NotRun == [kind |-> "notrun"]
NoRequest == [api |-> "none"]
NoCall == [op |-> "none"]

CallIdle ==
    /\ adapter = "none"
    /\ pc = "idle"
    /\ call = NoCall
    /\ pos = 0
    /\ inflight = NoRequest
    /\ requests = <<>>
    /\ invoked = <<>>
    /\ parts = <<>>
    /\ result = NotRun

----------------------------------------------------------------------------
\* Parser scenario: a decoded response is handed to the adapter's callback

ParseInit ==
    /\ CallIdle
    /\ p_out = NotRun
    /\ p_exactly_one \in BOOLEAN
    /\ \/ /\ p_adapter = "AzureMaps"
          /\ p_json \in AzureResponses
          /\ p_is_reverse \in BOOLEAN
       \/ /\ p_adapter = "MapTiler"
          /\ p_json \in MapTilerResponses
          /\ p_is_reverse = FALSE

\* _call_geocoder invokes partial(self._parse_batch_response, ...)
AzureParse ==
    /\ p_adapter = "AzureMaps"
    /\ p_out = NotRun
    /\ p_out' = ParseBatchResponse(p_json, p_exactly_one, p_is_reverse)
    /\ UNCHANGED <<p_adapter, p_json, p_exactly_one, p_is_reverse>>
    /\ UNCHANGED cvars

\* _call_geocoder invokes partial(self._parse_json, ...)
MapTilerParse ==
    /\ p_adapter = "MapTiler"
    /\ p_out = NotRun
    /\ p_out' = Return(ParseJson(p_json, p_exactly_one))
    /\ UNCHANGED <<p_adapter, p_json, p_exactly_one, p_is_reverse>>
    /\ UNCHANGED cvars

ParseNext == AzureParse \/ MapTilerParse

SpecParse == ParseInit /\ [][ParseNext]_vars

----------------------------------------------------------------------------
\* The vendor services: what they answer to a request.  Both know the same
\* three places; an address text or a coordinate they do not know has no
\* results.

NameUnknown == <<"z">>

Place1 == [name |-> Name1, lat |-> 1, lon |-> -2]
Place2 == [name |-> Name2, lat |-> 1, lon |-> -2]
Place3 == [name |-> Name1, lat |-> 3, lon |-> 1]

\* the places matching an address text, best match first
ForwardIndex(text) ==
    IF text = Name1 THEN <<Place1, Place3>>
    ELSE IF text = Name2 THEN <<Place2>>
    ELSE <<>>

\* the places at a coordinate, nearest first
ReverseIndex(lat, lon) ==
    IF lat = 1 /\ lon = -2 THEN <<Place1, Place2>> ELSE <<>>

HexPair(c) ==
    CASE c = <<"2", "0">> -> " "
      [] c = <<"2", "C">> -> ","
      [] c = <<"3", "B">> -> ";"
      [] c = <<"2", "6">> -> "&"
      [] c = <<"3", "D">> -> "="
      [] c = <<"2", "B">> -> "+"
      [] c = <<"2", "5">> -> "%"
      [] OTHER -> "?"

\* percent-decoding, "+" read as a space where plus is set
RECURSIVE Unquote(_, _)
Unquote(s, plus) ==
    IF s = <<>> THEN <<>>
    ELSE IF s[1] = "%" /\ Len(s) >= 3
         THEN <<HexPair(SubSeq(s, 2, 3))>> \o Unquote(SubSeq(s, 4, Len(s)), plus)
    ELSE IF plus /\ s[1] = "+" THEN <<" ">> \o Unquote(Tail(s), plus)
    ELSE <<s[1]>> \o Unquote(Tail(s), plus)

\* a text of the form "<number>,<number>"
IsCoordText(text) ==
    LET ps == Split(text, ",")
    IN Len(ps) = 2 /\ ParseFloat(ps[1]).kind = "return" /\ ParseFloat(ps[2]).kind = "return"

Take(s, n) == SubSeq(s, 1, IF Len(s) < n THEN Len(s) ELSE n)

\* the AzureMaps batch endpoints: one response per batch item, in the order
\* of the items.  An item query is "?[limit=1&]query=<text>".
AzureAnswerItem(api, q) ==
    LET limited == StartsWith(q, <<"?", "l", "i", "m", "i", "t", "=", "1", "&">>)
        fields == Split(Tail(q), "&")
        value == SubSeq(fields[Len(fields)], Len(QueryEq) + 1, Len(fields[Len(fields)]))
        text == Unquote(value, TRUE)
        cut(ps) == IF limited THEN Take(ps, 1) ELSE ps
    IN IF api = "api_batch"
       THEN LET ps == cut(ForwardIndex(text))
            IN [response |->
                   [results |-> [i \in DOMAIN ps |->
                       [address |-> [freeformAddress |-> PyStr(ps[i].name)],
                        position |-> PyDict([lat |-> PyNum(ps[i].lat),
                                             lon |-> PyNum(ps[i].lon)])]]]]
       ELSE LET c == Split(text, ",")
                ps == IF IsCoordText(text)
                      THEN cut(ReverseIndex(ParseFloat(c[1]).value, ParseFloat(c[2]).value))
                      ELSE <<>>
            IN [response |->
                   [addresses |-> [i \in DOMAIN ps |->
                       [address |-> [freeformAddress |-> PyStr(ps[i].name)],
                        position |-> PyStr(FormatNum(ps[i].lat) \o <<",">>
                                           \o FormatNum(ps[i].lon))]]]]

AzureService(req) ==
    [batchItems |-> [i \in DOMAIN req.data.batchItems |->
                        AzureAnswerItem(req.api, req.data.batchItems[i].query)]]

\* the MapTiler endpoint /geocoding/<query>.json: a feature collection for a
\* single query, a list of collections for queries joined by ";".  A query
\* "<x>,<y>" is a coordinate, longitude first.
MapTilerAnswerQuery(piece) ==
    LET text == Unquote(piece, FALSE)
        c == Split(text, ",")
        ps == IF IsCoordText(text)
              THEN ReverseIndex(ParseFloat(c[2]).value, ParseFloat(c[1]).value)
              ELSE ForwardIndex(text)
    IN [features |-> [i \in DOMAIN ps |->
           [place_name |-> PyStr(ps[i].name),
            center |-> <<PyNum(ps[i].lon), PyNum(ps[i].lat)>>]]]

MapTilerService(req) ==
    LET pieces == Split(req.query, ";")
    IN IF Len(pieces) = 1 THEN PyDict(MapTilerAnswerQuery(pieces[1]))
       ELSE PyList([i \in DOMAIN pieces |-> MapTilerAnswerQuery(pieces[i])])

----------------------------------------------------------------------------
\* Call scenario: an adapter is constructed and serves one public call

MaxInput == 4           \* items of a list input

GeocodeItems == {PyStr(Name1), PyStr(Name2), PyStr(NameUnknown)}

CoordForms(lat, lng) ==
    { Point(lat, lng), PyTuple(<<lat, lng>>),
      PyStr(FormatNum(lat) \o <<",">> \o FormatNum(lng)) }

\* the known coordinate in each form the caller may use, and an unknown one
ReverseItems == CoordForms(1, -2) \cup {PyTuple(<<3, 1>>)}

ListsOf(S) == {PyList(v) : v \in SeqsUpTo(S, MaxInput)}

\* list inputs at and just past AzureMaps' max_batch_size, one item repeated
LongListsOf(item) ==
    {PyList([i \in 1..n |-> item]) : n \in {AzureMaxBatchSize, AzureMaxBatchSize + 1}}

LimitArgs == {PyNone, PyNum(5)}

ParseIdle ==
    /\ p_adapter = "none"
    /\ p_json = PyNone
    /\ p_exactly_one = FALSE
    /\ p_is_reverse = FALSE
    /\ p_out = NotRun

\* AzureMaps.__init__ / MapTiler.__init__
Init ==
    /\ ParseIdle
    /\ adapter \in {"AzureMaps", "MapTiler"}
    /\ pc = "idle"
    /\ call = NoCall
    /\ pos = 0
    /\ inflight = NoRequest
    /\ requests = <<>>
    /\ invoked = <<>>
    /\ parts = <<>>
    /\ result = NotRun

\* the request func(query, **kwargs) builds, or the exception it raises
Invoke(func, query, kw) ==
    CASE func = "_batch_geocode" ->
           BatchGeocode(query, kw.exactly_one, kw.limit, kw.typeahead)
      [] func = "_batch_reverse" ->
           BatchReverse(query, kw.exactly_one, kw.limit, kw.typeahead)
      [] func = "_geocode" -> MapTilerGeocode(query, kw.exactly_one)
      [] OTHER -> MapTilerReverse(query, kw.exactly_one)

\* the step "func(query, **kwargs)" up to the point where _call_geocoder has
\* sent the request
Start(func, query, kw) ==
    LET built == Invoke(func, query, kw)
    IN /\ invoked' = Append(invoked, query)
       /\ IF built.kind = "raise"
          THEN /\ pc' = "raised"
               /\ result' = built
               /\ UNCHANGED <<inflight, requests>>
          ELSE /\ pc' = "awaiting"
               /\ inflight' = built.value
               /\ requests' = Append(requests, built.value)
               /\ UNCHANGED result

\* AzureMaps.geocode(query, exactly_one=, limit=, typeahead=)
AzureGeocode ==
    \E query \in ListsOf(GeocodeItems) \cup GeocodeItems \cup LongListsOf(PyStr(Name2)),
       exactly_one \in BOOLEAN, limit \in LimitArgs, typeahead \in BOOLEAN :
        /\ adapter = "AzureMaps" /\ pc = "idle"
        /\ call' = [op |-> "geocode", query |-> query, exactly_one |-> exactly_one,
                    limit |-> limit, typeahead |-> typeahead,
                    func |-> "_batch_geocode",
                    kw |-> AzureBatchKwargs(exactly_one, limit, typeahead)]
        /\ pc' = IF query.t = "list" THEN "batching" ELSE "delegated"
        /\ UNCHANGED <<adapter, pos, inflight, requests, invoked, parts, result>>
        /\ UNCHANGED pvars

\* AzureMaps.reverse(query, exactly_one=)
AzureReverse ==
    \E query \in ListsOf(ReverseItems) \cup ReverseItems
                     \cup LongListsOf(PyTuple(<<1, -2>>)),
       exactly_one \in BOOLEAN :
        /\ adapter = "AzureMaps" /\ pc = "idle"
        /\ call' = [op |-> "reverse", query |-> query, exactly_one |-> exactly_one,
                    limit |-> PyNone, typeahead |-> FALSE,
                    func |-> "_batch_reverse",
                    kw |-> AzureBatchKwargs(exactly_one, PyNone, FALSE)]
        /\ pc' = IF query.t = "list" THEN "batching" ELSE "delegated"
        /\ UNCHANGED <<adapter, pos, inflight, requests, invoked, parts, result>>
        /\ UNCHANGED pvars

\* MapTiler.geocode(query, exactly_one=)
MapTilerGeocodeCall ==
    \E query \in ListsOf(GeocodeItems) \cup GeocodeItems, exactly_one \in BOOLEAN :
        LET c == [op |-> "geocode", query |-> query, exactly_one |-> exactly_one,
                  limit |-> PyNone, typeahead |-> FALSE,
                  func |-> "_geocode", kw |-> [exactly_one |-> exactly_one]]
        IN /\ adapter = "MapTiler" /\ pc = "idle"
           /\ call' = c
           /\ IF query.t = "list"
              THEN /\ pc' = "batching"
                   /\ UNCHANGED <<inflight, requests, invoked, result>>
              ELSE Start(c.func, query, c.kw)
           /\ UNCHANGED <<adapter, pos, parts>>
           /\ UNCHANGED pvars

\* MapTiler.reverse(query, exactly_one=)
MapTilerReverseCall ==
    \E query \in ListsOf(ReverseItems) \cup ReverseItems, exactly_one \in BOOLEAN :
        LET c == [op |-> "reverse", query |-> query, exactly_one |-> exactly_one,
                  limit |-> PyNone, typeahead |-> FALSE,
                  func |-> "_reverse", kw |-> [exactly_one |-> exactly_one]]
        IN /\ adapter = "MapTiler" /\ pc = "idle"
           /\ call' = c
           /\ IF query.t = "list"
              THEN /\ pc' = "batching"
                   /\ UNCHANGED <<inflight, requests, invoked, result>>
              ELSE Start(c.func, query, c.kw)
           /\ UNCHANGED <<adapter, pos, parts>>
           /\ UNCHANGED pvars

\* the call in progress was given a list
IsBatch == call # NoCall /\ call.query.t = "list"

Min(a, b) == IF a < b THEN a ELSE b

\* Geocoder._apply_batchwise: the next slice of at most max_batch_size items
\* is handed to func
BatchStep ==
    /\ pc = "batching"
    /\ pos < Len(call.query.v)
    /\ Start(call.func,
             PyList(SubSeq(call.query.v, pos + 1,
                           Min(pos + MaxBatchSize(adapter), Len(call.query.v)))),
             call.kw)
    /\ UNCHANGED <<adapter, call, pos, parts>>
    /\ UNCHANGED pvars

\* the concatenation of the per-request results
RECURSIVE Concat(_)
Concat(ps) == IF ps = <<>> THEN <<>> ELSE ps[1] \o Concat(Tail(ps))

\* Geocoder._apply_batchwise: every slice is done, the concatenated results
\* are returned
BatchDone ==
    /\ pc = "batching"
    /\ pos >= Len(call.query.v)
    /\ pc' = "returned"
    /\ result' = Return(Concat(parts))
    /\ UNCHANGED <<adapter, call, pos, inflight, requests, invoked, parts>>
    /\ UNCHANGED pvars

\* what the adapter's callback makes of the decoded response
Callback(req, json) ==
    IF adapter = "AzureMaps"
    THEN LET out == ParseBatchResponse(json, req.callback.exactly_one,
                                       req.callback.is_reverse)
         IN IF out.kind = "raise" THEN out ELSE Return(PyList(out.value))
    ELSE Return(ParseJson(json, req.callback.exactly_one))

\* Geocoder._call_geocoder: the response arrives and the callback parses it.
\* In a batch the parsed list is the result of this request; a parsed value
\* that is not a list (the single collection MapTiler answers to a
\* one-query path) cannot be concatenated and fails the call.
Respond ==
    /\ pc = "awaiting"
    /\ LET json == IF adapter = "AzureMaps"
                   THEN AzureService(inflight) ELSE MapTilerService(inflight)
           out == Callback(inflight, json)
       IN IF out.kind = "raise"
          THEN /\ pc' = "raised" /\ result' = out
               /\ UNCHANGED <<pos, parts>>
          ELSE IF ~IsBatch
          THEN /\ pc' = "returned" /\ result' = out
               /\ UNCHANGED <<pos, parts>>
          ELSE IF out.value.t # "list"
          THEN /\ pc' = "raised" /\ result' = Raise("TypeError")
               /\ UNCHANGED <<pos, parts>>
          ELSE /\ pc' = "batching"
               /\ parts' = Append(parts, out.value.v)
               /\ pos' = pos + MaxBatchSize(adapter)
               /\ UNCHANGED result
    /\ inflight' = NoRequest
    /\ UNCHANGED <<adapter, call, requests, invoked>>
    /\ UNCHANGED pvars

\* Geocoder._call_geocoder: the transport fails (timeout, connection error,
\* HTTP error) and the typed error propagates
TransportFails ==
    /\ pc = "awaiting"
    /\ pc' = "raised"
    /\ result' = Raise("GeocoderError")
    /\ inflight' = NoRequest
    /\ UNCHANGED <<adapter, call, pos, requests, invoked, parts>>
    /\ UNCHANGED pvars

Next ==
    \/ AzureGeocode
    \/ AzureReverse
    \/ MapTilerGeocodeCall
    \/ MapTilerReverseCall
    \/ BatchStep
    \/ BatchDone
    \/ Respond
    \/ TransportFails

Spec == Init /\ [][Next]_vars

----------------------------------------------------------------------------
\* Properties of the parser scenario

Parsed == p_out # NotRun
HasError == "error" \in DOMAIN p_json
AzureItems == DictGet(p_json, "batchItems", <<>>)

\* the result set of batch item i under the key the callback looks up
\* (<<>> when the key is absent)
AzureResultSet(i) ==
    DictGet(AzureItems[i]["response"], AzureResponseKey(p_is_reverse), <<>>)

\* every result of the response carries a position the parser can convert
AllPositioned ==
    \A i \in DOMAIN AzureItems :
        \A j \in DOMAIN AzureResultSet(i) : "position" \in DOMAIN AzureResultSet(i)[j]

\* v is the Location built from response result r
IsLocationOf(v, r) == v.t = "Location" /\ v.raw = r

\* v is the list of the Locations of rs, same length, same order
IsLocationListOf(v, rs) ==
    /\ v.t = "list"
    /\ Len(v.v) = Len(rs)
    /\ \A j \in DOMAIN rs : IsLocationOf(v.v[j], rs[j])

\* the collections of a MapTiler response and the results parsed for them, as
\* aligned sequences (a single collection is a sequence of one)
MapTilerCollectionsOf(json) == IF json.t = "dict" THEN <<json.d>> ELSE json.v
MapTilerResultsOf(json, value) == IF json.t = "dict" THEN <<value>> ELSE value.v

\* C1: AzureMaps._parse_batch_response, given a decoded response with a
\* top-level "error" key, ends in GeocoderServiceError and returns no
\* locations, for either exactly_one, either is_reverse and any "batchItems".
C1_ErrorKeyRaises ==
    (p_adapter = "AzureMaps" /\ Parsed /\ HasError)
        => p_out = Raise("GeocoderServiceError")

\* an error response that also carries items with results has been parsed
C1_Witness ==
    /\ p_adapter = "AzureMaps" /\ Parsed /\ HasError
    /\ Len(AzureItems) = 2
    /\ \A i \in DOMAIN AzureItems : AzureResultSet(i) # <<>>
    /\ p_out.kind = "raise"

\* C3 as stated: in both parsers an item with a missing or empty result set
\* yields None when exactly_one is true and an empty sequence when it is false.
C3_Original ==
    (Parsed /\ p_out.kind = "return") =>
        /\ p_adapter = "AzureMaps" =>
             \A i \in DOMAIN AzureItems :
                 AzureResultSet(i) = <<>> =>
                     p_out.value[i] = IF p_exactly_one THEN PyNone ELSE PyList(<<>>)
        /\ p_adapter = "MapTiler" =>
             LET cs == MapTilerCollectionsOf(p_json)
                 vs == MapTilerResultsOf(p_json, p_out.value)
             IN \A i \in DOMAIN cs :
                    cs[i]["features"] = <<>> =>
                        vs[i] = IF p_exactly_one THEN PyNone ELSE PyList(<<>>)

\* C3 (amended): a missing or empty result set is never an error.  AzureMaps:
\* the item's entry is None when exactly_one is true and an empty list when it
\* is false, and the parse raises only for a top-level "error" or for a result
\* of a non-empty set that has no position.  MapTiler: the collection's result
\* is None in both exactly_one modes, and the parse always returns.
C3_EmptyResultSets ==
    Parsed =>
        /\ p_adapter = "AzureMaps" =>
             /\ p_out.kind = "raise" => (HasError \/ ~AllPositioned)
             /\ p_out.kind = "return" =>
                  \A i \in DOMAIN AzureItems :
                      AzureResultSet(i) = <<>> =>
                          p_out.value[i] = IF p_exactly_one THEN PyNone ELSE PyList(<<>>)
        /\ p_adapter = "MapTiler" =>
             /\ p_out.kind = "return"
             /\ LET cs == MapTilerCollectionsOf(p_json)
                    vs == MapTilerResultsOf(p_json, p_out.value)
                IN \A i \in DOMAIN cs : cs[i]["features"] = <<>> => vs[i] = PyNone

\* a two-item AzureMaps response in multi-result mode whose first item has no
\* result key and whose second has results has been parsed
C3_Witness ==
    /\ p_adapter = "AzureMaps" /\ Parsed /\ ~p_exactly_one
    /\ Len(AzureItems) = 2
    /\ DOMAIN AzureItems[1]["response"] = {}
    /\ AzureResultSet(2) # <<>>
    /\ p_out.kind = "return"
    /\ p_out.value[1] = PyList(<<>>)

\* C4: MapTiler._parse_json yields None for a collection with an empty
\* "features" array; for a list of collections the output has the length and
\* order of the list, None exactly at the empty collections and the parsed
\* features of each other collection at its position.
C4_EmptyCollections ==
    (p_adapter = "MapTiler" /\ Parsed) =>
        /\ p_out.kind = "return"
        /\ p_json.t = "dict" =>
             (p_json.d["features"] = <<>> <=> p_out.value = PyNone)
        /\ p_json.t = "list" =>
             /\ p_out.value.t = "list"
             /\ Len(p_out.value.v) = Len(p_json.v)
             /\ \A i \in DOMAIN p_json.v :
                    LET fs == p_json.v[i]["features"]
                        v == p_out.value.v[i]
                    IN IF fs = <<>> THEN v = PyNone
                       ELSE IF p_exactly_one THEN IsLocationOf(v, fs[1])
                       ELSE IsLocationListOf(v, fs)

\* a list whose first collection is empty and whose second is not
C4_Witness ==
    /\ p_adapter = "MapTiler" /\ Parsed
    /\ p_json.t = "list" /\ Len(p_json.v) = 2
    /\ p_json.v[1]["features"] = <<>>
    /\ p_json.v[2]["features"] # <<>>
    /\ p_out.value.v[1] = PyNone
    /\ p_out.value.v[2] # PyNone

\* what C6 says of the value parsed for a non-empty result set rs
FirstOrAll(v, rs) ==
    IF p_exactly_one THEN IsLocationOf(v, rs[1]) ELSE IsLocationListOf(v, rs)

\* C6: in both parsers an item with a non-empty result set yields the
\* Location of its first result in response order when exactly_one is set, and
\* otherwise the list of the Locations of all its results, same length and
\* order.  The results are those the response schema describes, each with a
\* position; an AzureMaps response holding a result without one is not
\* parsed at all (float(None) raises TypeError).
C6_FirstOrAll ==
    (Parsed /\ ~HasError) =>
        /\ p_adapter = "AzureMaps" =>
             /\ AllPositioned =>
                  /\ p_out.kind = "return"
                  /\ \A i \in DOMAIN AzureItems :
                         AzureResultSet(i) # <<>> =>
                             FirstOrAll(p_out.value[i], AzureResultSet(i))
             /\ ~AllPositioned => p_out = Raise("TypeError")
        /\ p_adapter = "MapTiler" =>
             /\ p_out.kind = "return"
             /\ LET cs == MapTilerCollectionsOf(p_json)
                    vs == MapTilerResultsOf(p_json, p_out.value)
                IN \A i \in DOMAIN cs :
                       cs[i]["features"] # <<>> => FirstOrAll(vs[i], cs[i]["features"])

\* an AzureMaps item with two different results has been parsed with
\* exactly_one set
C6_Witness ==
    /\ p_adapter = "AzureMaps" /\ Parsed /\ p_exactly_one
    /\ Len(AzureItems) >= 1
    /\ Len(AzureResultSet(1)) = 2
    /\ AzureResultSet(1)[1] # AzureResultSet(1)[2]
    /\ p_out.kind = "return"
    /\ IsLocationOf(p_out.value[1], AzureResultSet(1)[1])

----------------------------------------------------------------------------
\* Properties of the call scenario

Done == pc \in {"returned", "raised"}
N == Len(call.query.v)
TransportFailed == pc = "raised" /\ result = Raise("GeocoderError")
LimitPrefix == <<"?", "l", "i", "m", "i", "t", "=", "1", "&">>

\* the maximum batch sizes the specification states
StatedMax == IF adapter = "AzureMaps" THEN 1000 ELSE 3

\* the k-th consecutive slice of at most m items of the input list
Slice(k, m) == SubSeq(call.query.v, (k - 1) * m + 1, Min(k * m, N))
CeilDiv(n, m) == (n + m - 1) \div m

\* the number of items a request carries
ItemCount(req) ==
    IF req.api = "api" THEN Len(Split(req.query, ";")) ELSE Len(req.data.batchItems)

\* the places the service knows for an input item
ItemPlaces(item) ==
    IF call.op = "geocode" THEN ForwardIndex(item.s)
    ELSE ReverseIndex(ToPoint(item).latitude, ToPoint(item).longitude)

\* v is a Location of place p (the two services name coordinates as JSON
\* numbers or texts; AzureMaps converts them with float(), MapTiler keeps the
\* JSON numbers)
IsLocationAt(v, p) ==
    /\ v.t = "Location"
    /\ v.address = PyStr(p.name)
    /\ v.point = IF adapter = "AzureMaps" THEN <<p.lat, p.lon>>
                 ELSE <<PyNum(p.lat), PyNum(p.lon)>>

\* entry is the result for an input item with places ps
IsResultFor(entry, ps) ==
    IF ps = <<>>
    THEN entry = PyNone \/ entry = PyList(<<>>)
    ELSE IF call.exactly_one THEN IsLocationAt(entry, ps[1])
    ELSE /\ entry.t = "list"
         /\ Len(entry.v) = Len(ps)
         /\ \A j \in DOMAIN ps : IsLocationAt(entry.v[j], ps[j])

\* C2 as stated: geocode and reverse called with a list of n items,
\* 1 <= n <= max_batch_size, return a sequence of exactly n entries, entry i
\* being the result for input item i (the service answers every request).
C2_Claim ==
    (Done /\ IsBatch /\ N >= 1 /\ N <= MaxBatchSize(adapter) /\ ~TransportFailed) =>
        /\ result.kind = "return"
        /\ Len(result.value) = N
        /\ \A i \in 1..N : IsResultFor(result.value[i], ItemPlaces(call.query.v[i]))

\* the "lat,lng" text AzureMaps' reverse endpoint is to receive for an item
LatLngText(item) ==
    FormatNum(ToPoint(item).latitude) \o <<",">> \o FormatNum(ToPoint(item).longitude)

\* C9 as stated: AzureMaps batch reverse accepts a structured point, a
\* (lat, lng) pair and a "lat,lng" text for each item and emits the batch item
\* query "lat,lng" for it; no accepted form makes the call fail.
C9_Claim ==
    (adapter = "AzureMaps" /\ call.op = "reverse" /\ IsBatch) =>
        \A k \in DOMAIN invoked :
            /\ k \in DOMAIN requests
            /\ Len(requests[k].data.batchItems) = Len(invoked[k].v)
            /\ \A i \in DOMAIN invoked[k].v :
                   requests[k].data.batchItems[i].query =
                       (IF call.exactly_one THEN LimitPrefix ELSE <<"?">>)
                           \o QueryEq \o LatLngText(invoked[k].v[i])

\* the text of an address as it appears in an AzureMaps batch item query
PlusEncoded(text) ==
    IF text = Name1 THEN <<"a", "+", "b">> ELSE text

\* C10: every request body _batch_geocode or _batch_reverse builds has one
\* batch item per input item, in input order; each item query starts with
\* "?limit=1&" exactly when exactly_one is set and with "?" otherwise and
\* continues with "query=" and the item; the caller's limit and typeahead
\* have no part in it.
C10_BatchBody ==
    (adapter = "AzureMaps" /\ IsBatch) =>
        \A k \in DOMAIN requests :
            LET items == invoked[k].v
                body == requests[k].data.batchItems
            IN /\ Len(body) = Len(items)
               /\ \A i \in DOMAIN items :
                      /\ body[i].query[1] = "?"
                      /\ StartsWith(body[i].query, LimitPrefix) <=> call.exactly_one
                      /\ body[i].query =
                             (IF call.exactly_one THEN LimitPrefix ELSE <<"?">>)
                                 \o QueryEq
                                 \o (IF call.op = "geocode"
                                     THEN PlusEncoded(items[i].s)
                                     ELSE LatLngText(items[i]))

\* a forward batch of different addresses, with the caller's limit and
\* typeahead set, has been sent in multi-result mode
C10_Witness ==
    /\ adapter = "AzureMaps" /\ IsBatch /\ call.op = "geocode"
    /\ ~call.exactly_one /\ call.limit = PyNum(5) /\ call.typeahead
    /\ N = 3 /\ call.query.v[1] # call.query.v[2]
    /\ Len(requests) = 1
    /\ Len(requests[1].data.batchItems) = 3

\* C7: for a list input every request carries at most the adapter's maximum
\* batch size of items (AzureMaps 1000, MapTiler 3); the requests go out one
\* at a time over consecutive slices of the input, in input order, each after
\* the previous one has completed; the returned sequence is the
\* concatenation of the per-request results in that order.
C7_Batching ==
    IsBatch =>
        /\ \A k \in DOMAIN requests : ItemCount(requests[k]) <= StatedMax
        /\ \A k \in DOMAIN invoked : invoked[k] = PyList(Slice(k, StatedMax))
        /\ Len(requests) <= Len(invoked)
        /\ Len(requests) - Len(parts) \in {0, 1}
        /\ (inflight # NoRequest) <=> (pc = "awaiting")
        /\ pc = "awaiting" =>
             (inflight = requests[Len(requests)] /\ Len(parts) = Len(requests) - 1)
        /\ pc = "batching" => (Len(parts) = Len(requests) /\ Len(requests) = Len(invoked))
        /\ pc = "returned" =>
             /\ Len(requests) = CeilDiv(N, StatedMax)
             /\ Len(parts) = Len(requests)
             /\ result = Return(Concat(parts))

\* a list one longer than AzureMaps' maximum batch size has been served by
\* two requests
C7_Witness ==
    /\ adapter = "AzureMaps" /\ IsBatch /\ pc = "returned"
    /\ N = 1001
    /\ Len(requests) = 2
    /\ ItemCount(requests[1]) = 1000
    /\ ItemCount(requests[2]) = 1
    /\ Len(result.value) = N

PathEncoded(item) ==
    IF call.op = "geocode"
    THEN (IF item.s = Name1 THEN <<"a", "%", "2", "0", "b">> ELSE item.s)
    ELSE FormatNum(ToPoint(item).longitude) \o <<",">> \o FormatNum(ToPoint(item).latitude)

LocationsIn(v) ==
    IF v.t = "Location" THEN {v}
    ELSE IF v.t = "list"
    THEN UNION {(IF v.v[i].t = "Location" THEN {v.v[i]}
                 ELSE IF v.v[i].t = "list" THEN {v.v[i].v[j] : j \in DOMAIN v.v[i].v}
                 ELSE {}) : i \in DOMAIN v.v}
    ELSE {}

\* C5: every Location MapTiler returns for a feature with center [lon, lat]
\* holds the pair as (lat, lon) = (center[1], center[0]), in both exactly_one
\* modes; a reverse geocode of (lat, lng) is sent as "lon,lat" and, the
\* service echoing it in center, comes back as (lat, lng).
C5_AxisOrder ==
    (adapter = "MapTiler" /\ pc = "returned") =>
        /\ \A loc \in LocationsIn(IF IsBatch THEN PyList(result.value) ELSE result.value) :
               loc.point = <<loc.raw["center"][2], loc.raw["center"][1]>>
        /\ (call.op = "reverse" /\ ~IsBatch) =>
             LET p == ToPoint(call.query)
             IN /\ requests[1].query =
                       FormatNum(p.longitude) \o <<"%", "2", "C">> \o FormatNum(p.latitude)
                /\ ReverseIndex(p.latitude, p.longitude) # <<>> =>
                     /\ LocationsIn(result.value) # {}
                     /\ \A loc \in LocationsIn(result.value) :
                            loc.point = <<PyNum(p.latitude), PyNum(p.longitude)>>

\* the reverse geocode of the pair (1, -2) has returned its Location
C5_Witness ==
    /\ adapter = "MapTiler" /\ pc = "returned"
    /\ call.op = "reverse" /\ call.query = PyTuple(<<1, -2>>) /\ call.exactly_one
    /\ result.value.t = "Location"
    /\ result.value.point = <<PyNum(1), PyNum(-2)>>
    /\ result.value.raw["center"] = <<PyNum(-2), PyNum(1)>>

====
